---- MODULE Spec2Model ----
(***************************************************************************)
(* The API Gateway Ansible modules (library/apigw_*.py) as a state         *)
(* machine.  Each module is a separate program: one execution of main()    *)
(* reads the task's parameters, looks the resource up in the AWS account,  *)
(* computes patch operations and issues create / update / delete calls.    *)
(*                                                                         *)
(* A behaviour is a play against one account: the program, the account     *)
(* and the task are drawn in Init, and the same task is then executed up   *)
(* to MaxRuns times (the second execution is what idempotency is about).   *)
(* Spec has every SDK call succeed; SpecWithErrors adds executions in      *)
(* which a modifying call ends in an SDK error.                            *)
(*                                                                         *)
(* Python values: a dict is a function whose DOMAIN is the set of keys     *)
(* present, a list is a sequence.  A module parameter that is None is a    *)
(* key absent from the params dict (module.params.get(k) is None), except  *)
(* in apigw_usage_plan, whose parameters all have defaults.  The modules   *)
(* require python 2.7.                                                     *)
(***************************************************************************)
EXTENDS Integers, Sequences, FiniteSets, TLC

VARIABLES program, task, aws, hist

vars == <<program, task, aws, hist>>

\* Executions of the same task in one play.
MaxRuns == 2

None == "None"

----------------------------------------------------------------------------
(* Python helpers                                                          *)

\* dict.get(k): the value, or None when the key is absent.
Get(d, k) == IF k \in DOMAIN d THEN d[k] ELSE None

\* The dict d without key k.
Without(d, k) == [x \in DOMAIN d \ {k} |-> d[x]]

\* The dict d with d[k] = v.
With(d, k, v) == (k :> v) @@ d

Digits == <<"0", "1", "2", "3", "4", "5", "6", "7", "8", "9">>

RECURSIVE IntStr(_)
\* str(n) of a non-negative int.
IntStr(n) == IF n < 10 THEN Digits[n + 1] ELSE IntStr(n \div 10) \o Digits[(n % 10) + 1]

\* str(x) of a float with an integral value: str(2.0) = "2.0".
FloatStr(n) == IntStr(n) \o ".0"

\* str(b) of a bool.
BoolStr(b) == IF b THEN "True" ELSE "False"

\* Values a number sent as a patch value can take in this model.
Numbers == 0 .. 20

\* The service parsing a patch value back into a number.
ParseInt(s) == CHOOSE n \in Numbers : IntStr(n) = s
ParseFloat(s) == CHOOSE n \in Numbers : FloatStr(n) = s
ParseBool(s) == s \in {"True", "true"}

\* module.params.get(k) is not None.
IsSet(params, k) == k \in DOMAIN params

\* module.params.get(k) not in ['', None].
NotBlank(params, k) == k \in DOMAIN params /\ params[k] # ""

\* The dicts {} and {k: v} for v in S: a parameter left out or given.
Opt(k, S) == {<<>>} \cup {(k :> v) : v \in S}

\* Index of the last element of sequence s satisfying name = l.get('name'),
\* or 0: the "for l in items: if name == l.get('name'): resp = l" loops.
LastByName(s, name) ==
    LET hits == {i \in 1 .. Len(s) : Get(s[i], "name") = name}
    IN IF hits = {} THEN 0 ELSE CHOOSE i \in hits : \A j \in hits : j <= i

\* Index of the item with the given id, or 0 (the service answers
\* NotFoundException).
ById(s, id) ==
    LET hits == {i \in 1 .. Len(s) : s[i].id = id}
    IN IF hits = {} THEN 0 ELSE CHOOSE i \in hits : TRUE

\* The sequence s without its i-th element.
Drop(s, i) == SubSeq(s, 1, i - 1) \o SubSeq(s, i + 1, Len(s))

\* An identifier the service hands out for a new resource: one not in use.
NewId(s) ==
    LET used == {s[i].id : i \in 1 .. Len(s)}
        n == CHOOSE k \in 1 .. Len(s) + 1 :
                 /\ "id" \o IntStr(k) \notin used
                 /\ \A j \in 1 .. k - 1 : "id" \o IntStr(j) \in used
    IN "id" \o IntStr(n)

\* The outcome of one execution of main().
\*   out     "exit"  module.exit_json (success)
\*           "fail"  module.fail_json / fail_json_aws
\*           "crash" an exception main() does not catch
\*   changed the changed value reported (FALSE unless out = "exit")
\*   calls   the calls issued that modify the account, in order
\*   patches the patch list the run computed (empty when none was computed)
\*   ret     <<resource>> returned next to changed, or <<>>
\*   aws     the account after the run
Exit(changed, calls, patches, ret, account) ==
    [out |-> "exit", changed |-> changed, calls |-> calls, patches |-> patches,
     ret |-> ret, aws |-> account]

Fail(calls, patches, account) ==
    [out |-> "fail", changed |-> FALSE, calls |-> calls, patches |-> patches,
     ret |-> <<>>, aws |-> account]

Crash(calls, patches, account) ==
    [out |-> "crash", changed |-> FALSE, calls |-> calls, patches |-> patches,
     ret |-> <<>>, aws |-> account]

----------------------------------------------------------------------------
(* apigw_usage_plan                                                        *)

\* param_map: module parameter -> key path in the usage plan.
up_param_map(f) ==
    CASE f = "throttle_burst_limit" -> <<"throttle", "burstLimit">>
      [] f = "throttle_rate_limit" -> <<"throttle", "rateLimit">>
      [] f = "quota_offset" -> <<"quota", "offset">>
      [] f = "quota_limit" -> <<"quota", "limit">>
      [] f = "quota_period" -> <<"quota", "period">>
      [] OTHER -> <<f>>

\* argument_spec[f]['type'] for the parameters is_default_value is asked about.
up_param_type(f) ==
    CASE f \in {"throttle_burst_limit", "quota_limit", "quota_offset"} -> "int"
      [] f = "throttle_rate_limit" -> "float"
      [] OTHER -> "string"

is_default_value(param_name, param_value) ==
    IF up_param_type(param_name) \in {"int", "float"}
    THEN param_value < 0
    ELSE param_value \in {None, ""}

\* str(new) for a parameter of the given name.
up_str(f, v) ==
    CASE up_param_type(f) = "int" -> IntStr(v)
      [] up_param_type(f) = "float" -> FloatStr(v)
      [] OTHER -> v

\* "/{}".format(key) for a key of param_map ('throttle/burstLimit').
up_path(keys) ==
    IF Len(keys) = 1 THEN "/" \o keys[1] ELSE "/" \o keys[1] \o "/" \o keys[2]

\* get_value(key) is not None.
up_has_value(usage_plan, keys) ==
    /\ keys[1] \in DOMAIN usage_plan
    /\ Len(keys) = 2 => keys[2] \in DOMAIN usage_plan[keys[1]]

\* get_value(key), when it is not None.
up_get_value(usage_plan, keys) ==
    IF Len(keys) = 1 THEN usage_plan[keys[1]] ELSE usage_plan[keys[1]][keys[2]]

\* "{0}:{1}".format(s['apiId'], s['stage']) over the plan's stages.
old_api_stages(usage_plan) ==
    LET st == IF "apiStages" \in DOMAIN usage_plan THEN usage_plan.apiStages ELSE <<>>
    IN [i \in 1 .. Len(st) |-> st[i].apiId \o ":" \o st[i].stage]

\* "{0}:{1}".format(s['rest_api_id'], s['stage']) over the api_stages parameter.
new_api_stages(params) ==
    [i \in 1 .. Len(params.api_stages) |->
        params.api_stages[i].rest_api_id \o ":" \o params.api_stages[i].stage]

InSeq(x, s) == \E i \in 1 .. Len(s) : s[i] = x

\* A create_api_stages_remove_patches that does not look at `leave`: every
\* attached stage is removed.
remove_every_api_stage(old, leave) ==
    [k \in 1 .. Len(old) |-> [op |-> "remove", path |-> "/apiStages", value |-> old[k]]]

RECURSIVE create_api_stages_remove_patches(_, _)
create_api_stages_remove_patches(old, leave) ==
    IF old = <<>> THEN <<>>
    ELSE (IF ~InSeq(Head(old), leave)
          THEN <<[op |-> "remove", path |-> "/apiStages", value |-> Head(old)]>>
          ELSE <<>>)
         \o create_api_stages_remove_patches(Tail(old), leave)

\* all_defaults(params_list): "is_default = is_default or is_default_value(p, ...)"
\* over the list, starting from False.
all_defaults(params, params_list) ==
    \E i \in 1 .. Len(params_list) : is_default_value(params_list[i], params[params_list[i]])

\* A patch_field that does not compare old and new: every specified field
\* the plan holds is replaced.
patch_field_uncompared(params, usage_plan, f) ==
    LET new == params[f]
        key == up_param_map(f)
    IN IF is_default_value(f, new) THEN <<>>
       ELSE IF ~up_has_value(usage_plan, key)
       THEN <<[op |-> "add", path |-> up_path(key), value |-> up_str(f, new)]>>
       ELSE <<[op |-> "replace", path |-> up_path(key), value |-> up_str(f, new)]>>

patch_field(params, usage_plan, f) ==
    LET new == params[f]
        key == up_param_map(f)
    IN IF is_default_value(f, new) THEN <<>>
       ELSE IF ~up_has_value(usage_plan, key)
       THEN <<[op |-> "add", path |-> up_path(key), value |-> up_str(f, new)]>>
       ELSE IF up_get_value(usage_plan, key) # new
       THEN <<[op |-> "replace", path |-> up_path(key), value |-> up_str(f, new)]>>
       ELSE <<>>

RECURSIVE up_add_stage_patches(_, _)
\* "for stage in new_api_stages: if stage not in old_api_stages: patches.append(add)"
up_add_stage_patches(new, old) ==
    IF new = <<>> THEN <<>>
    ELSE (IF ~InSeq(Head(new), old)
          THEN <<[op |-> "add", path |-> "/apiStages", value |-> Head(new)]>>
          ELSE <<>>)
         \o up_add_stage_patches(Tail(new), old)

\* The purge part of create_patches: stages first, then throttle and quota.
up_purge_patches(params, usage_plan) ==
    (IF "apiStages" \in DOMAIN usage_plan /\ params.purge_api_stages
     THEN create_api_stages_remove_patches(old_api_stages(usage_plan), new_api_stages(params))
     ELSE <<>>)
    \o (IF /\ "throttle" \in DOMAIN usage_plan
           /\ params.purge_throttle
           /\ all_defaults(params, <<"throttle_rate_limit", "throttle_burst_limit">>)
        THEN <<[op |-> "remove", path |-> "/throttle"]>>
        ELSE <<>>)
    \o (IF /\ "quota" \in DOMAIN usage_plan
           /\ params.purge_quota
           /\ all_defaults(params, <<"quota_limit", "quota_offset", "quota_period">>)
        THEN <<[op |-> "remove", path |-> "/quota"]>>
        ELSE <<>>)

up_create_patches(params, usage_plan) ==
    up_purge_patches(params, usage_plan)
    \o patch_field(params, usage_plan, "description")
    \o patch_field(params, usage_plan, "quota_limit")
    \o patch_field(params, usage_plan, "quota_period")
    \o patch_field(params, usage_plan, "quota_offset")
    \o patch_field(params, usage_plan, "throttle_burst_limit")
    \o patch_field(params, usage_plan, "throttle_rate_limit")
    \o up_add_stage_patches(new_api_stages(params), old_api_stages(usage_plan))

\* The args of create_usage_plan for one group of parameters (throttle or
\* quota): a dict of the non-default ones, under their boto names.
up_group_args(params, fields) ==
    LET set == {i \in 1 .. Len(fields) : ~is_default_value(fields[i], params[fields[i]])}
    IN [k \in {up_param_map(fields[i])[2] : i \in set} |->
          LET i == CHOOSE j \in set : up_param_map(fields[j])[2] = k
          IN params[fields[i]]]

\* create_usage_plan: the args passed to client.create_usage_plan.
create_usage_plan_args(params) ==
    LET throttle == up_group_args(params, <<"throttle_burst_limit", "throttle_rate_limit">>)
        quota == up_group_args(params, <<"quota_limit", "quota_period", "quota_offset">>)
    IN [name |-> params.name,
        apiStages |-> [i \in 1 .. Len(params.api_stages) |->
                         [apiId |-> params.api_stages[i].rest_api_id,
                          stage |-> params.api_stages[i].stage]]]
       @@ (IF is_default_value("description", params.description)
           THEN <<>> ELSE [description |-> params.description])
       @@ (IF DOMAIN throttle = {} THEN <<>> ELSE [throttle |-> throttle])
       @@ (IF DOMAIN quota = {} THEN <<>> ELSE [quota |-> quota])

\* The api stages a patch value "<apiId>:<stage>" can name.
StageUniverse ==
    {[apiId |-> a, stage |-> st] : a \in {"r1", "r2"}, st \in {"s1", "s2"}}

\* The service reading "<apiId>:<stage>" back into an api stage.
ParseStage(v) == CHOOSE st \in StageUniverse : st.apiId \o ":" \o st.stage = v

\* A usage plan as the service returns it: a key is present only when it
\* holds something.
up_normal(plan) ==
    LET p1 == IF "apiStages" \in DOMAIN plan /\ plan.apiStages = <<>>
              THEN Without(plan, "apiStages") ELSE plan
        p2 == IF "throttle" \in DOMAIN p1 /\ DOMAIN p1.throttle = {}
              THEN Without(p1, "throttle") ELSE p1
    IN IF "quota" \in DOMAIN p2 /\ DOMAIN p2.quota = {} THEN Without(p2, "quota") ELSE p2

\* client.create_usage_plan(**args): the plan the service stores and returns.
svc_create_usage_plan(items, args) ==
    up_normal([id |-> NewId(items)] @@ args)

\* One patch operation applied by client.update_usage_plan.
svc_patch_usage_plan(plan, p) ==
    LET sub(k) == IF k \in DOMAIN plan THEN plan[k] ELSE <<>>
        stages == IF "apiStages" \in DOMAIN plan THEN plan.apiStages ELSE <<>>
    IN up_normal(
       CASE p.path = "/apiStages" /\ p.op = "remove" ->
              With(plan, "apiStages", SelectSeq(stages, LAMBDA st : st # ParseStage(p.value)))
         [] p.path = "/apiStages" /\ p.op = "add" ->
              IF InSeq(ParseStage(p.value), stages) THEN plan
              ELSE With(plan, "apiStages", Append(stages, ParseStage(p.value)))
         [] p.path = "/throttle" -> Without(plan, "throttle")
         [] p.path = "/quota" -> Without(plan, "quota")
         [] p.path = "/description" -> With(plan, "description", p.value)
         [] p.path = "/throttle/burstLimit" ->
              With(plan, "throttle", With(sub("throttle"), "burstLimit", ParseInt(p.value)))
         [] p.path = "/throttle/rateLimit" ->
              With(plan, "throttle", With(sub("throttle"), "rateLimit", ParseFloat(p.value)))
         [] p.path = "/quota/limit" ->
              With(plan, "quota", With(sub("quota"), "limit", ParseInt(p.value)))
         [] p.path = "/quota/offset" ->
              With(plan, "quota", With(sub("quota"), "offset", ParseInt(p.value)))
         [] p.path = "/quota/period" ->
              With(plan, "quota", With(sub("quota"), "period", p.value)))

RECURSIVE svc_update_usage_plan(_, _)
\* client.update_usage_plan(usagePlanId, patchOperations): the operations
\* applied in order.
svc_update_usage_plan(plan, patches) ==
    IF patches = <<>> THEN plan
    ELSE svc_update_usage_plan(svc_patch_usage_plan(plan, Head(patches)), Tail(patches))

\* find_usage_plan: the index of the plan found, or 0.  The id parameter is
\* not in argument_spec, so module.params.get('id') is None and the lookup
\* is always by name.
find_usage_plan(params, items) == LastByName(items, params.name)

ensure_usage_plan_absent(params, items) ==
    LET i == find_usage_plan(params, items)
    IN IF i = 0 THEN Exit(FALSE, <<>>, <<>>, <<>>, items)
       ELSE IF params.check_mode THEN Exit(TRUE, <<>>, <<>>, <<>>, items)
       ELSE LET usage_plan == items[i]
                patches == IF "apiStages" \in DOMAIN usage_plan
                           THEN create_api_stages_remove_patches(old_api_stages(usage_plan), <<>>)
                           ELSE <<>>
                upd == IF patches # <<>>
                       THEN <<[api |-> "update_usage_plan", id |-> usage_plan.id,
                               patches |-> patches]>>
                       ELSE <<>>
            IN Exit(TRUE, upd \o <<[api |-> "delete_usage_plan", id |-> usage_plan.id]>>,
                    <<>>, <<>>, Drop(items, i))

ensure_usage_plan_present(params, items) ==
    LET i == find_usage_plan(params, items)
    IN IF i = 0
       THEN IF params.check_mode
            \* usage_plan is still None: None.pop('ResponseMetadata', None)
            THEN Crash(<<>>, <<>>, items)
            ELSE LET args == create_usage_plan_args(params)
                     usage_plan == svc_create_usage_plan(items, args)
                 IN Exit(TRUE, <<[api |-> "create_usage_plan", args |-> args]>>, <<>>,
                         <<usage_plan>>, Append(items, usage_plan))
       ELSE LET patches == up_create_patches(params, items[i])
                updated == svc_update_usage_plan(items[i], patches)
            IN IF patches = <<>> THEN Exit(FALSE, <<>>, patches, <<items[i]>>, items)
               ELSE IF params.check_mode THEN Exit(TRUE, <<>>, patches, <<items[i]>>, items)
               ELSE Exit(TRUE,
                         <<[api |-> "update_usage_plan", id |-> items[i].id,
                            patches |-> patches]>>,
                         patches, <<updated>>, [items EXCEPT ![i] = updated])

\* main() of apigw_usage_plan.
apigw_usage_plan(params, items) ==
    IF params.name \in {None, ""} THEN Fail(<<>>, <<>>, items)
    ELSE IF params.state = "present" THEN ensure_usage_plan_present(params, items)
    ELSE ensure_usage_plan_absent(params, items)

----------------------------------------------------------------------------
(* apigw_api_key                                                           *)

\* client.get_api_keys(nameQuery=name): the keys whose name starts with the
\* query; the caller then keeps the last one whose name equals it.
find_api_key(params, items) ==
    IF NotBlank(params, "id") THEN ById(items, params.id)
    ELSE LastByName(items, params.name)

\* backoff_create_api_key: the args passed to client.create_api_key.
create_api_key_args(params) ==
    [name |-> params.name, enabled |-> params.enabled,
     generateDistinctId |-> params.generate_distinct_id]
    @@ (IF IsSet(params, "description") THEN [description |-> params.description] ELSE <<>>)
    @@ (IF IsSet(params, "value") THEN [value |-> params.value] ELSE <<>>)

\* client.create_api_key(**args): the key the service stores and returns; it
\* makes up a value when none is given.
svc_create_api_key(items, args) ==
    [id |-> NewId(items), name |-> args.name, enabled |-> args.enabled,
     value |-> IF "value" \in DOMAIN args THEN args.value ELSE "generated"]
    @@ (IF "description" \in DOMAIN args THEN [description |-> args.description] ELSE <<>>)

\* One patch operation applied by client.update_api_key.
svc_patch_api_key(key, p) ==
    CASE p.path = "/name" -> With(key, "name", p.value)
      [] p.path = "/description" -> With(key, "description", p.value)
      [] p.path = "/enabled" -> With(key, "enabled", ParseBool(p.value))

RECURSIVE svc_update_api_key(_, _)
svc_update_api_key(key, patches) ==
    IF patches = <<>> THEN key
    ELSE svc_update_api_key(svc_patch_api_key(key, Head(patches)), Tail(patches))

\* The patch list ensure_api_key_present builds for an existing key.
api_key_patches(params, api_key) ==
    (IF NotBlank(params, "name") /\ params.name # api_key.name
     THEN <<[op |-> "replace", path |-> "/name", value |-> params.name]>> ELSE <<>>)
    \o (IF NotBlank(params, "description") /\ params.description # api_key.description
        THEN <<[op |-> "replace", path |-> "/description", value |-> params.description]>>
        ELSE <<>>)
    \o (IF params.enabled # api_key.enabled
        THEN <<[op |-> "replace", path |-> "/enabled", value |-> BoolStr(params.enabled)]>>
        ELSE <<>>)

ensure_api_key_absent(params, items) ==
    LET i == find_api_key(params, items)
    IN IF i = 0 THEN Exit(FALSE, <<>>, <<>>, <<>>, items)
       ELSE IF params.check_mode THEN Exit(TRUE, <<>>, <<>>, <<>>, items)
       ELSE Exit(TRUE, <<[api |-> "delete_api_key", id |-> items[i].id]>>, <<>>, <<>>,
                 Drop(items, i))

ensure_api_key_present(params, items) ==
    LET i == find_api_key(params, items)
    IN IF i = 0
       THEN IF NotBlank(params, "id")
            \* module.fail_json_aws(e, ...): e is not defined here (NameError)
            THEN Crash(<<>>, <<>>, items)
            ELSE IF params.check_mode
            \* api_key is still None: None.pop('ResponseMetadata', None)
            THEN Crash(<<>>, <<>>, items)
            ELSE LET args == create_api_key_args(params)
                     api_key == svc_create_api_key(items, args)
                 IN Exit(TRUE, <<[api |-> "create_api_key", args |-> args]>>, <<>>,
                         <<api_key>>, Append(items, api_key))
       ELSE LET api_key == items[i]
            IN \* api_key['description'] of a key without one: KeyError
               IF NotBlank(params, "description") /\ "description" \notin DOMAIN api_key
               THEN Crash(<<>>, <<>>, items)
               ELSE LET patches == api_key_patches(params, api_key)
                        updated == svc_update_api_key(api_key, patches)
                    IN IF NotBlank(params, "value") /\ params.value # api_key.value
                       THEN Fail(<<>>, patches, items)
                       ELSE IF patches = <<>> THEN Exit(FALSE, <<>>, patches, <<api_key>>, items)
                       ELSE IF params.check_mode
                       THEN Exit(TRUE, <<>>, patches, <<api_key>>, items)
                       ELSE Exit(TRUE,
                                 <<[api |-> "update_api_key", id |-> api_key.id,
                                    patches |-> patches]>>,
                                 patches, <<updated>>, [items EXCEPT ![i] = updated])

\* main() of apigw_api_key.  find_api_key fails the module when neither id
\* nor name is given.
apigw_api_key(params, items) ==
    IF ~NotBlank(params, "id") /\ ~NotBlank(params, "name") THEN Fail(<<>>, <<>>, items)
    ELSE IF params.state = "present" THEN ensure_api_key_present(params, items)
    ELSE ensure_api_key_absent(params, items)

----------------------------------------------------------------------------
(* apigw_rest_api                                                          *)

\* param_map: module parameter -> key of the rest api.
ra_param_map(f) ==
    CASE f = "api_key_source" -> "apiKeySource"
      [] f = "endpoint_configuration" -> "endpointConfiguration"
      [] f = "binary_media_types" -> "binaryMediaTypes"
      [] f = "minimum_compression_size" -> "minimumCompressionSize"
      [] OTHER -> f

\* str(new): minimum_compression_size is the one int among the patched fields.
ra_str(f, v) == IF f = "minimum_compression_size" THEN IntStr(v) ELSE v

\* The body of "for f in [ 'name', 'description', ... ]" for one f.
ra_patch_field(params, rest_api, f) ==
    LET key == ra_param_map(f)
    IN IF ~IsSet(params, f) THEN <<>>
       ELSE IF key \notin DOMAIN rest_api
       THEN <<[op |-> "add", path |-> "/" \o key, value |-> ra_str(f, params[f])]>>
       ELSE IF params[f] # rest_api[key]
       THEN <<[op |-> "replace", path |-> "/" \o key, value |-> ra_str(f, params[f])]>>
       ELSE <<>>

RECURSIVE ra_patch_fields(_, _, _)
ra_patch_fields(params, rest_api, fields) ==
    IF fields = <<>> THEN <<>>
    ELSE ra_patch_field(params, rest_api, Head(fields))
         \o ra_patch_fields(params, rest_api, Tail(fields))

\* create_patches of apigw_rest_api.
ra_create_patches(params, rest_api) ==
    LET old == rest_api.endpointConfiguration.types[1]
    IN (IF /\ IsSet(params, "endpoint_configuration")
           /\ params.endpoint_configuration.types[1] # old
        THEN <<[op |-> "replace", path |-> "/endpointConfiguration/types/" \o old,
                value |-> params.endpoint_configuration.types[1]]>>
        ELSE <<>>)
       \o ra_patch_fields(params, rest_api,
            <<"name", "description", "api_key_source", "minimum_compression_size",
              "policy", "version">>)

\* create_patches fails the module: binary_media_types given and different.
ra_unsupported_update(params, rest_api) ==
    /\ IsSet(params, "binary_media_types")
    /\ \/ "binaryMediaTypes" \notin DOMAIN rest_api
       \/ params.binary_media_types # rest_api.binaryMediaTypes

\* find_rest_api(module, client): by id when one is given, else by name.
find_rest_api(params, items) ==
    IF NotBlank(params, "id") THEN ById(items, params.id)
    ELSE LastByName(items, params.name)

\* find_rest_api(module, client, other): the last api whose name or id is other.
find_rest_api_other(items, other) ==
    LET hits == {i \in 1 .. Len(items) : other \in {items[i].name, items[i].id}}
    IN IF hits = {} THEN 0 ELSE CHOOSE i \in hits : \A j \in hits : j <= i

\* create_rest_api: the args passed to client.create_rest_api, apart from
\* cloneFrom.
create_rest_api_args(params) ==
    LET fields == {"name", "description", "api_key_source", "binary_media_types",
                   "endpoint_configuration", "minimum_compression_size", "policy",
                   "version"}
        given == {f \in fields : IsSet(params, f)}
    IN [k \in {ra_param_map(f) : f \in given} |->
          params[CHOOSE f \in given : ra_param_map(f) = k]]

\* client.create_rest_api(**args): the api the service stores and returns.
\* A clone starts from the original's settings, a new api from the defaults.
svc_create_rest_api(items, args) ==
    LET base == IF "cloneFrom" \in DOMAIN args
                THEN LET o == items[ById(items, args.cloneFrom)]
                     IN [k \in DOMAIN o \ {"id", "name"} |-> o[k]]
                ELSE [apiKeySource |-> "HEADER",
                      endpointConfiguration |-> [types |-> <<"EDGE">>]]
    IN [id |-> NewId(items)] @@ Without(args, "cloneFrom") @@ base

\* One patch operation applied by client.update_rest_api.
svc_patch_rest_api(api, p) ==
    CASE p.path \in {"/endpointConfiguration/types/EDGE",
                     "/endpointConfiguration/types/REGIONAL",
                     "/endpointConfiguration/types/PRIVATE"} ->
           With(api, "endpointConfiguration", [types |-> <<p.value>>])
      [] p.path = "/name" -> With(api, "name", p.value)
      [] p.path = "/description" -> With(api, "description", p.value)
      [] p.path = "/apiKeySource" -> With(api, "apiKeySource", p.value)
      [] p.path = "/minimumCompressionSize" ->
           With(api, "minimumCompressionSize", ParseInt(p.value))
      [] p.path = "/policy" -> With(api, "policy", p.value)
      [] p.path = "/version" -> With(api, "version", p.value)

RECURSIVE svc_update_rest_api(_, _)
svc_update_rest_api(api, patches) ==
    IF patches = <<>> THEN api
    ELSE svc_update_rest_api(svc_patch_rest_api(api, Head(patches)), Tail(patches))

ensure_rest_api_absent(params, items) ==
    LET i == find_rest_api(params, items)
    IN IF i = 0 THEN Exit(FALSE, <<>>, <<>>, <<>>, items)
       ELSE IF params.check_mode THEN Exit(TRUE, <<>>, <<>>, <<items[i]>>, items)
       ELSE Exit(TRUE, <<[api |-> "delete_rest_api", id |-> items[i].id]>>, <<>>,
                 <<items[i]>>, Drop(items, i))

ensure_rest_api_present(params, items) ==
    LET i == find_rest_api(params, items)
    IN IF i = 0
       THEN IF NotBlank(params, "id")
            \* module.fail_json_aws(e, ...): e is not defined here (NameError)
            THEN Crash(<<>>, <<>>, items)
            ELSE IF params.check_mode
            \* rest_api is still None: None.pop('ResponseMetadata', None)
            THEN Crash(<<>>, <<>>, items)
            ELSE LET o == IF NotBlank(params, "clone_from")
                          THEN find_rest_api_other(items, params.clone_from) ELSE 0
                     args == create_rest_api_args(params)
                             @@ (IF o # 0 THEN [cloneFrom |-> items[o].id] ELSE <<>>)
                     rest_api == svc_create_rest_api(items, args)
                 IN IF NotBlank(params, "clone_from") /\ o = 0
                    THEN Fail(<<>>, <<>>, items)
                    ELSE Exit(TRUE, <<[api |-> "create_rest_api", args |-> args]>>, <<>>,
                              <<rest_api>>, Append(items, rest_api))
       ELSE LET rest_api == items[i]
                patches == ra_create_patches(params, rest_api)
                updated == svc_update_rest_api(rest_api, patches)
            IN IF ra_unsupported_update(params, rest_api) THEN Fail(<<>>, <<>>, items)
               ELSE IF patches = <<>> THEN Exit(FALSE, <<>>, patches, <<rest_api>>, items)
               ELSE IF params.check_mode THEN Exit(TRUE, <<>>, patches, <<rest_api>>, items)
               ELSE Exit(TRUE,
                         <<[api |-> "update_rest_api", id |-> rest_api.id,
                            patches |-> patches]>>,
                         patches, <<updated>>, [items EXCEPT ![i] = updated])

\* main() of apigw_rest_api.  find_rest_api fails the module when neither id
\* nor name is given.
apigw_rest_api(params, items) ==
    IF ~NotBlank(params, "id") /\ ~NotBlank(params, "name") THEN Fail(<<>>, <<>>, items)
    ELSE IF params.state = "present" THEN ensure_rest_api_present(params, items)
    ELSE ensure_rest_api_absent(params, items)

----------------------------------------------------------------------------
(* apigw_usage_plan_key                                                    *)
(* The account is [api_keys, usage_plans, items]: the api keys and usage   *)
(* plans the module looks up by name, and the usage plan keys.             *)

\* find_api_key / find_usage_plan of apigw_usage_plan_key: the id of the last
\* item with the given name, or None.
upk_find_id(items, name) ==
    LET i == LastByName(items, name) IN IF i = 0 THEN None ELSE items[i].id

\* client.get_usage_plan_key(keyId, usagePlanId): the index of the usage plan
\* key, or 0 (NotFoundException, which the wrapper turns into None).
upk_get(acct, api_key_id, usage_plan_id) ==
    LET hits == {i \in 1 .. Len(acct.items) :
                   /\ acct.items[i].id = api_key_id
                   /\ acct.items[i].usagePlanId = usage_plan_id}
    IN IF hits = {} THEN 0 ELSE CHOOSE i \in hits : TRUE

\* client.create_usage_plan_key is refused (a ClientError) unless both the
\* api key and the usage plan exist.
svc_can_create_usage_plan_key(acct, api_key_id, usage_plan_id) ==
    ById(acct.api_keys, api_key_id) # 0 /\ ById(acct.usage_plans, usage_plan_id) # 0

svc_create_usage_plan_key(acct, api_key_id, usage_plan_id, key_type) ==
    [id |-> api_key_id, usagePlanId |-> usage_plan_id, type |-> key_type,
     name |-> acct.api_keys[ById(acct.api_keys, api_key_id)].name]

ensure_usage_plan_key_absent(params, acct, api_key_id, usage_plan_id) ==
    LET i == upk_get(acct, api_key_id, usage_plan_id)
    IN IF i = 0 THEN Exit(FALSE, <<>>, <<>>, <<>>, acct)
       ELSE IF params.check_mode THEN Exit(TRUE, <<>>, <<>>, <<>>, acct)
       ELSE Exit(TRUE,
                 <<[api |-> "delete_usage_plan_key", id |-> api_key_id,
                    usagePlanId |-> usage_plan_id]>>,
                 <<>>, <<>>, [acct EXCEPT !.items = Drop(@, i)])

ensure_usage_plan_key_present(params, acct, api_key_id, usage_plan_id) ==
    LET i == upk_get(acct, api_key_id, usage_plan_id)
        call == [api |-> "create_usage_plan_key", id |-> api_key_id,
                 usagePlanId |-> usage_plan_id, keyType |-> params.key_type]
    IN IF i # 0 THEN Exit(FALSE, <<>>, <<>>, <<acct.items[i]>>, acct)
       ELSE IF params.check_mode
       \* usage_plan_key is still None: None.pop('ResponseMetadata', None)
       THEN Crash(<<>>, <<>>, acct)
       ELSE IF ~svc_can_create_usage_plan_key(acct, api_key_id, usage_plan_id)
       THEN Fail(<<call>>, <<>>, acct)
       ELSE LET k == svc_create_usage_plan_key(acct, api_key_id, usage_plan_id,
                                               params.key_type)
            IN Exit(TRUE, <<call>>, <<>>, <<k>>, [acct EXCEPT !.items = Append(@, k)])

\* main() of apigw_usage_plan_key.
apigw_usage_plan_key(params, acct) ==
    IF ~NotBlank(params, "api_key_id") /\ ~NotBlank(params, "api_key")
    THEN Fail(<<>>, <<>>, acct)
    ELSE IF ~NotBlank(params, "usage_plan_id") /\ ~NotBlank(params, "usage_plan")
    THEN Fail(<<>>, <<>>, acct)
    ELSE LET api_key_id == IF NotBlank(params, "api_key_id") THEN params.api_key_id
                           ELSE upk_find_id(acct.api_keys, params.api_key)
             usage_plan_id == IF NotBlank(params, "usage_plan_id") THEN params.usage_plan_id
                              ELSE upk_find_id(acct.usage_plans, params.usage_plan)
         IN \* keyId=None or usagePlanId=None does not pass the SDK's parameter
            \* validation; the handler of that error uses the undefined name
            \* module (NameError)
            IF api_key_id = None \/ usage_plan_id = None THEN Crash(<<>>, <<>>, acct)
            ELSE IF params.state = "present"
            THEN ensure_usage_plan_key_present(params, acct, api_key_id, usage_plan_id)
            ELSE ensure_usage_plan_key_absent(params, acct, api_key_id, usage_plan_id)

----------------------------------------------------------------------------
(* apigw_vpc_link                                                          *)

\* find_vpc_link: vpc_link_id is not in argument_spec, so
\* module.params.get('vpc_link_id') is None and the lookup is always by name.
find_vpc_link(params, items) == LastByName(items, params.name)

\* client.create_vpc_link(name, description, targetArns): the link the
\* service stores and returns.
svc_create_vpc_link(items, params) ==
    [id |-> NewId(items), name |-> params.name, description |-> params.description,
     targetArns |-> params.target_arns, status |-> "PENDING"]

\* One patch operation applied by client.update_vpc_link.
svc_patch_vpc_link(link, p) ==
    CASE p.path = "/name" -> With(link, "name", p.value)
      [] p.path = "/description" -> With(link, "description", p.value)

RECURSIVE svc_update_vpc_link(_, _)
svc_update_vpc_link(link, patches) ==
    IF patches = <<>> THEN link
    ELSE svc_update_vpc_link(svc_patch_vpc_link(link, Head(patches)), Tail(patches))

\* The patch list ensure_vpc_link_present builds for an existing link.
vpc_link_patches(params, vpc_link) ==
    (IF NotBlank(params, "name") /\ params.name # vpc_link.name
     THEN <<[op |-> "replace", path |-> "/name", value |-> params.name]>> ELSE <<>>)
    \o (IF /\ NotBlank(params, "description")
           /\ \/ "description" \notin DOMAIN vpc_link
              \/ params.description # vpc_link.description
        THEN <<[op |-> "replace", path |-> "/description", value |-> params.description]>>
        ELSE <<>>)

ensure_vpc_link_absent(params, items) ==
    LET i == find_vpc_link(params, items)
    IN IF i = 0 THEN Exit(FALSE, <<>>, <<>>, <<>>, items)
       ELSE IF params.check_mode THEN Exit(TRUE, <<>>, <<>>, <<>>, items)
       \* vpc_link.vpc_link_id: vpc_link is a dict (AttributeError), which the
       \* except clause for ClientError and BotoCoreError does not catch
       ELSE Crash(<<>>, <<>>, items)

ensure_vpc_link_present(params, items) ==
    LET i == find_vpc_link(params, items)
    IN IF i = 0
       THEN IF params.check_mode
            \* vpc_link is still None: None.pop('ResponseMetadata', None)
            THEN Crash(<<>>, <<>>, items)
            \* description=None or targetArns=None does not pass the SDK's
            \* parameter validation (a BotoCoreError, which main does not catch)
            ELSE IF ~IsSet(params, "description") \/ ~IsSet(params, "target_arns")
            THEN Crash(<<>>, <<>>, items)
            ELSE LET vpc_link == svc_create_vpc_link(items, params)
                 IN Exit(TRUE,
                         <<[api |-> "create_vpc_link", name |-> params.name,
                            description |-> params.description,
                            targetArns |-> params.target_arns]>>,
                         <<>>, <<vpc_link>>, Append(items, vpc_link))
       ELSE LET vpc_link == items[i]
                patches == vpc_link_patches(params, vpc_link)
                updated == svc_update_vpc_link(vpc_link, patches)
                calls == IF patches # <<>> /\ ~params.check_mode
                         THEN <<[api |-> "update_vpc_link", id |-> vpc_link.id,
                                 patches |-> patches]>>
                         ELSE <<>>
                after == IF calls # <<>> THEN updated ELSE vpc_link
                account == [items EXCEPT ![i] = after]
            IN IF /\ IsSet(params, "target_arns") /\ params.target_arns # <<>>
                  /\ params.target_arns # vpc_link.targetArns
               THEN Fail(<<>>, patches, items)
               ELSE IF after.status \in {"DELETING", "FAILED"}
               THEN Fail(calls, patches, account)
               ELSE Exit(patches # <<>>, calls, patches, <<after>>, account)

\* main() of apigw_vpc_link.
apigw_vpc_link(params, items) ==
    \* AnsibleAWSModule(argument_spec=...): vpc_link_id is not in argument_spec,
    \* a task that gives it is refused ("Unsupported parameters"); after this
    \* module.params.get('vpc_link_id') is always None
    IF "vpc_link_id" \in DOMAIN params THEN Fail(<<>>, <<>>, items)
    ELSE IF ~NotBlank(params, "name") THEN Fail(<<>>, <<>>, items)
    ELSE IF params.state = "present" THEN ensure_vpc_link_present(params, items)
    ELSE ensure_vpc_link_absent(params, items)

----------------------------------------------------------------------------
(* apigw_domain_name                                                       *)

\* retrieve_domain_name: the index of the domain name, or 0 (the service
\* answers NotFoundException and the function returns None).
retrieve_domain_name(items, name) ==
    LET hits == {i \in 1 .. Len(items) : items[i].domainName = name}
    IN IF hits = {} THEN 0 ELSE CHOOSE i \in hits : TRUE

\* compare_aws_tags(old_tags, tags, purge_tags) of ansible.module_utils.ec2:
\* the tags to set and the tag keys to remove.
compare_aws_tags(old_tags, tags, purge_tags) ==
    [to_tag |-> [k \in {x \in DOMAIN tags : x \notin DOMAIN old_tags \/ old_tags[x] # tags[x]}
                   |-> tags[k]],
     to_untag |-> IF purge_tags THEN DOMAIN old_tags \ DOMAIN tags ELSE {}]

\* The region of the connection, as get_aws_connection_info returns it.
Region == "us-east-1"

\* 'arn:aws:apigateway:{0}::/domainnames/{1}'.format(region, name)
domain_name_arn(name) == "arn:aws:apigateway:" \o Region \o "::/domainnames/" \o name

\* The args ensure_domain_name_present passes to client.create_domain_name.
create_domain_name_args(params) ==
    [domainName |-> params.name]
    @@ (IF ~IsSet(params, "cert_arn") THEN [certificateName |-> params.cert_name]
        ELSE [certificateArn |-> params.cert_arn])
    @@ (IF NotBlank(params, "security_policy")
        THEN [securityPolicy |-> params.security_policy] ELSE <<>>)
    @@ (IF IsSet(params, "tags") THEN [tags |-> params.tags] ELSE <<>>)

\* client.tag_resource / client.untag_resource on a domain name.
svc_tag_domain(domain, to_tag) ==
    With(domain, "tags", to_tag @@ (IF "tags" \in DOMAIN domain THEN domain.tags ELSE <<>>))
svc_untag_domain(domain, keys) ==
    IF "tags" \in DOMAIN domain
    THEN With(domain, "tags", [k \in DOMAIN domain.tags \ keys |-> domain.tags[k]])
    ELSE domain

\* One patch operation applied by client.update_domain_name.
svc_patch_domain_name(domain, p) ==
    CASE p.path = "/certificateArn" -> With(domain, "certificateArn", p.value)
      [] p.path = "/certificateName" -> With(domain, "certificateName", p.value)
      [] p.path = "/securityPolicy" -> With(domain, "securityPolicy", p.value)

RECURSIVE svc_update_domain_name(_, _)
svc_update_domain_name(domain, patches) ==
    IF patches = <<>> THEN domain
    ELSE svc_update_domain_name(svc_patch_domain_name(domain, Head(patches)), Tail(patches))

\* The patch list ensure_domain_name_present builds.
domain_name_patches(params, domain) ==
    (IF NotBlank(params, "cert_arn") /\ params.cert_arn # domain.certificateArn
     THEN <<[op |-> "replace", path |-> "/certificateArn", value |-> params.cert_arn]>>
     ELSE <<>>)
    \o (IF NotBlank(params, "cert_name") /\ params.cert_name # domain.certificateName
        THEN <<[op |-> "replace", path |-> "/certificateName", value |-> params.cert_name]>>
        ELSE <<>>)
    \o (IF /\ NotBlank(params, "security_policy")
           /\ \/ "securityPolicy" \notin DOMAIN domain
              \/ params.security_policy # domain.securityPolicy
        THEN <<[op |-> "replace", path |-> "/securityPolicy",
                value |-> params.security_policy]>>
        ELSE <<>>)

\* A certificate check made only when the domain name has to be created.
cert_missing_on_create(params, i0) ==
    i0 = 0 /\ ~IsSet(params, "cert_arn") /\ ~IsSet(params, "cert_name")

\* "if cert_arn is None and cert_name is None: module.fail_json(...)", made
\* after the lookup whatever it found (i0 is the index of the domain name
\* found, or 0).
cert_missing(params, i0) ==
    ~IsSet(params, "cert_arn") /\ ~IsSet(params, "cert_name")

ensure_domain_name_absent(params, items) ==
    LET i == retrieve_domain_name(items, params.name)
    IN IF i = 0 THEN Exit(FALSE, <<>>, <<>>, <<>>, items)
       ELSE IF params.check_mode THEN Exit(TRUE, <<>>, <<>>, <<items[i]>>, items)
       ELSE Exit(TRUE, <<[api |-> "delete_domain_name", id |-> params.name]>>, <<>>,
                 <<items[i]>>, Drop(items, i))

ensure_domain_name_present(params, items) ==
    LET i0 == retrieve_domain_name(items, params.name)
        args == create_domain_name_args(params)
        \* after "if domain is None": the domain created, or the one found
        items1 == IF i0 = 0 THEN Append(items, args) ELSE items
        calls1 == IF i0 = 0 THEN <<[api |-> "create_domain_name", args |-> args]>> ELSE <<>>
        i == IF i0 = 0 THEN Len(items1) ELSE i0
        domain1 == items1[i]
        \* after "if domain and tags is not None"
        old_tags == IF "tags" \in DOMAIN domain1 THEN domain1.tags ELSE <<>>
        cmp == IF IsSet(params, "tags")
               THEN compare_aws_tags(old_tags, params.tags, params.purge_tags)
               ELSE [to_tag |-> <<>>, to_untag |-> {}]
        arn == domain_name_arn(params.name)
        tagged == DOMAIN cmp.to_tag # {}
        untagged == cmp.to_untag # {}
        calls2 == calls1
                  \o (IF tagged /\ ~params.check_mode
                      THEN <<[api |-> "tag_resource", arn |-> arn, tags |-> cmp.to_tag]>>
                      ELSE <<>>)
                  \o (IF untagged /\ ~params.check_mode
                      THEN <<[api |-> "untag_resource", arn |-> arn, tagKeys |-> cmp.to_untag]>>
                      ELSE <<>>)
        domain2 == IF params.check_mode THEN domain1
                   ELSE LET t == IF tagged THEN svc_tag_domain(domain1, cmp.to_tag) ELSE domain1
                        IN IF untagged THEN svc_untag_domain(t, cmp.to_untag) ELSE t
        items2 == [items1 EXCEPT ![i] = domain2]
        changed2 == i0 = 0 \/ tagged \/ untagged
        \* the patches
        patches == domain_name_patches(params, domain2)
        domain3 == svc_update_domain_name(domain2, patches)
    IN IF cert_missing(params, i0)
       THEN Fail(<<>>, <<>>, items)
       ELSE IF i0 = 0 /\ params.check_mode
       THEN Exit(TRUE, <<>>, <<>>, <<>>, items)
       \* domain['certificateArn'] / domain['certificateName'] of a domain
       \* name without that key: KeyError, which nothing catches
       ELSE IF \/ NotBlank(params, "cert_arn") /\ "certificateArn" \notin DOMAIN domain2
               \/ NotBlank(params, "cert_name") /\ "certificateName" \notin DOMAIN domain2
       THEN Crash(calls2, <<>>, items2)
       ELSE IF patches = <<>> THEN Exit(changed2, calls2, patches, <<domain2>>, items2)
       ELSE IF params.check_mode THEN Exit(TRUE, calls2, patches, <<domain2>>, items2)
       ELSE Exit(TRUE,
                 calls2 \o <<[api |-> "update_domain_name", id |-> params.name,
                              patches |-> patches]>>,
                 patches, <<domain3>>, [items2 EXCEPT ![i] = domain3])

\* main() of apigw_domain_name.
apigw_domain_name(params, items) ==
    IF params.state = "present" THEN ensure_domain_name_present(params, items)
    ELSE ensure_domain_name_absent(params, items)

----------------------------------------------------------------------------
(* apigw_base_path_mapping                                                 *)

\* client.get_base_path_mapping(domainName, basePath): the index of the
\* mapping, or 0 (the service answers NotFoundException).
get_base_path_mapping(items, name, path) ==
    LET hits == {i \in 1 .. Len(items) :
                   items[i].domainName = name /\ items[i].basePath = path}
    IN IF hits = {} THEN 0 ELSE CHOOSE i \in hits : TRUE

\* One patch operation applied by client.update_base_path_mapping.
svc_patch_base_path_mapping(mapping, p) ==
    CASE p.path = "/restapiId" -> With(mapping, "restApiId", p.value)
      [] p.path = "/stage" -> With(mapping, "stage", p.value)

RECURSIVE svc_update_base_path_mapping(_, _)
svc_update_base_path_mapping(mapping, patches) ==
    IF patches = <<>> THEN mapping
    ELSE svc_update_base_path_mapping(svc_patch_base_path_mapping(mapping, Head(patches)),
                                      Tail(patches))

\* The patch list ensure_base_path_mapping_present builds for an existing
\* mapping; rest_api_id is the parameter of that function.
base_path_mapping_patches(params, base_path_mapping, rest_api_id) ==
    (IF rest_api_id \notin {"", None} /\ rest_api_id # base_path_mapping.restApiId
     THEN <<[op |-> "replace", path |-> "/restapiId", value |-> rest_api_id]>> ELSE <<>>)
    \o (IF NotBlank(params, "stage") /\ params.stage # base_path_mapping.stage
        THEN <<[op |-> "replace", path |-> "/stage", value |-> params.stage]>> ELSE <<>>)

ensure_base_path_mapping_absent(params, items, i) ==
    IF i = 0 THEN Exit(FALSE, <<>>, <<>>, <<>>, items)
    ELSE IF params.check_mode THEN Exit(TRUE, <<>>, <<>>, <<>>, items)
    \* backoff_delete_usage_plan_key is not defined in this module (NameError),
    \* which the except clause for ClientError and BotoCoreError does not catch
    ELSE Crash(<<>>, <<>>, items)

ensure_base_path_mapping_present(params, items, i, rest_api_id) ==
    \* "if not base_path_mapping: raise ValueError('creating!')"
    IF i = 0 THEN Crash(<<>>, <<>>, items)
    \* base_path_mapping['stage'] of a mapping without a stage: KeyError
    ELSE IF NotBlank(params, "stage") /\ "stage" \notin DOMAIN items[i]
    THEN Crash(<<>>, <<>>, items)
    ELSE LET patches == base_path_mapping_patches(params, items[i], rest_api_id)
             updated == svc_update_base_path_mapping(items[i], patches)
         IN IF patches = <<>> THEN Exit(FALSE, <<>>, patches, <<items[i]>>, items)
            ELSE IF params.check_mode THEN Exit(TRUE, <<>>, patches, <<items[i]>>, items)
            ELSE Exit(TRUE,
                      <<[api |-> "update_base_path_mapping", id |-> <<params.name, params.base_path>>,
                         patches |-> patches]>>,
                      patches, <<updated>>, [items EXCEPT ![i] = updated])

\* main() of apigw_base_path_mapping.  The lookup is made outside the try
\* block: the NotFoundException of a mapping that does not exist is caught
\* nowhere.
apigw_base_path_mapping(params, items) ==
    LET i == get_base_path_mapping(items, params.name, params.base_path)
    IN IF i = 0 THEN Crash(<<>>, <<>>, items)
       ELSE IF params.state = "present"
       THEN IF NotBlank(params, "rest_api_id")
            THEN ensure_base_path_mapping_present(params, items, i, params.rest_api_id)
            \* find_rest_api: no rest_api name fails the module; with one,
            \* backoff_get_rest_apis is not defined in this module (NameError)
            ELSE IF ~NotBlank(params, "rest_api") THEN Fail(<<>>, <<>>, items)
            ELSE Crash(<<>>, <<>>, items)
       ELSE ensure_base_path_mapping_absent(params, items, i)

----------------------------------------------------------------------------
(* Tasks and accounts the programs are run on                              *)

Stage(a, st) == [rest_api_id |-> a, stage |-> st]

\* api_stages values: not set (the default []), one stage, two stages, the
\* same stage listed twice.
UpStageLists ==
    {<<>>, <<Stage("r1", "s1")>>, <<Stage("r2", "s2"), Stage("r1", "s1")>>,
     <<Stage("r1", "s2"), Stage("r1", "s2")>>}

\* (throttle_burst_limit, throttle_rate_limit): -1 and -1.0 are the defaults.
UpThrottleParams == {<<-1, -1>>, <<5, -1>>, <<-1, 2>>, <<5, 2>>}

\* (quota_limit, quota_offset, quota_period): -1, -1 and '' are the defaults.
UpQuotaParams == {<<-1, -1, "">>, <<10, -1, "">>, <<10, 0, "DAY">>}

UpTasks ==
    {[name |-> "a", description |-> d, api_stages |-> st, purge_api_stages |-> pa,
      throttle_burst_limit |-> th[1], throttle_rate_limit |-> th[2], purge_throttle |-> pt,
      quota_limit |-> q[1], quota_offset |-> q[2], quota_period |-> q[3], purge_quota |-> pq,
      state |-> "present", check_mode |-> cm] :
        d \in {""}, st \in UpStageLists, pa \in BOOLEAN,
        th \in UpThrottleParams, pt \in BOOLEAN,
        q \in UpQuotaParams, pq \in BOOLEAN, cm \in BOOLEAN}
    \cup
    {[name |-> "a", description |-> "d1", api_stages |-> <<>>, purge_api_stages |-> FALSE,
      throttle_burst_limit |-> th[1], throttle_rate_limit |-> th[2], purge_throttle |-> pt,
      quota_limit |-> -1, quota_offset |-> -1, quota_period |-> "", purge_quota |-> TRUE,
      state |-> "present", check_mode |-> cm] :
        th \in UpThrottleParams, pt \in BOOLEAN, cm \in BOOLEAN}
    \cup
    {[name |-> n, description |-> "", api_stages |-> <<>>, purge_api_stages |-> TRUE,
      throttle_burst_limit |-> -1, throttle_rate_limit |-> -1, purge_throttle |-> TRUE,
      quota_limit |-> -1, quota_offset |-> -1, quota_period |-> "", purge_quota |-> TRUE,
      state |-> st, check_mode |-> cm] :
        n \in {"a", "b"}, st \in {"present", "absent"}, cm \in BOOLEAN}

\* Usage plans named "a" an account can hold.
UpPlans ==
    \* plans that differ in their stages and description
    {up_normal([id |-> "id1", name |-> "a", apiStages |-> st] @@ d) :
        d \in {<<>>, [description |-> "d2"]},
        st \in {<<>>, <<[apiId |-> "r1", stage |-> "s1"]>>,
                <<[apiId |-> "r1", stage |-> "s1"], [apiId |-> "r1", stage |-> "s2"]>>}}
    \cup
    \* plans that differ in their throttle and quota
    {up_normal([id |-> "id1", name |-> "a", apiStages |-> <<>>, throttle |-> th, quota |-> q]) :
        th \in {<<>>, [burstLimit |-> 5, rateLimit |-> 2], [burstLimit |-> 7, rateLimit |-> 2],
                [burstLimit |-> 5]},
        q \in {<<>>, [limit |-> 10, offset |-> 0, period |-> "DAY"],
               [limit |-> 10, period |-> "WEEK"]}}
    \cup
    \* a plan with everything
    {[id |-> "id1", name |-> "a", description |-> "d2",
      apiStages |-> <<[apiId |-> "r1", stage |-> "s1"]>>,
      throttle |-> [burstLimit |-> 5, rateLimit |-> 2],
      quota |-> [limit |-> 10, offset |-> 0, period |-> "DAY"]]}

UpOther == [id |-> "id2", name |-> "b", description |-> "d1"]

UpAccounts ==
    {<<>>, <<UpOther>>} \cup {<<p>> : p \in UpPlans}
    \cup {<<p, UpOther>> : p \in {q \in UpPlans : DOMAIN q \cap {"quota", "throttle"} = {}}}

Flags(state, check_mode) == [state |-> state, check_mode |-> check_mode]

States == {"present", "absent"}

AkTasks ==
    {n @@ i @@ d @@ v @@ Flags(st, cm)
       @@ [enabled |-> e, generate_distinct_id |-> g] :
        n \in Opt("name", {"a", "b"}), i \in Opt("id", {"id1", "id9"}),
        d \in Opt("description", {"d1", "d2"}), v \in Opt("value", {"v1", "v2"}),
        e \in BOOLEAN, g \in BOOLEAN, st \in States, cm \in BOOLEAN}

AkKeys ==
    {[id |-> "id1", name |-> "a", enabled |-> e, value |-> "v1"] @@ d :
        e \in BOOLEAN, d \in Opt("description", {"d1"})}

AkOther == [id |-> "id2", name |-> "b", enabled |-> TRUE, value |-> "v2", description |-> "d2"]

\* A second key named like the first: the lookup by name keeps the last one.
AkTwin == [id |-> "id3", name |-> "a", enabled |-> TRUE, value |-> "v1", description |-> "d1"]

AkAccounts ==
    {<<>>, <<AkOther>>} \cup {<<k>> : k \in AkKeys} \cup {<<k, AkOther>> : k \in AkKeys}
    \cup {<<k, AkTwin>> : k \in AkKeys}

RaTasks ==
    {n @@ i @@ d @@ a @@ e @@ m @@ Flags(st, cm) :
        n \in Opt("name", {"a", "b"}), i \in Opt("id", {"id1", "id9"}),
        d \in Opt("description", {"d1"}), a \in Opt("api_key_source", {"AUTHORIZER"}),
        e \in Opt("endpoint_configuration", {[types |-> <<"REGIONAL">>]}),
        m \in Opt("minimum_compression_size", {10}),
        st \in States, cm \in BOOLEAN}
    \cup
    {[name |-> n] @@ b @@ c @@ Flags(st, cm) :
        n \in {"a", "b"},
        b \in Opt("binary_media_types", {<<"image/png">>}),
        c \in Opt("clone_from", {"b", "zz"}),
        st \in States, cm \in BOOLEAN}

RaApis ==
    {[id |-> "id1", name |-> "a", apiKeySource |-> "HEADER",
      endpointConfiguration |-> [types |-> <<t>>]] @@ d :
        t \in {"EDGE", "REGIONAL"}, d \in Opt("description", {"d2"})}
    \cup
    {[id |-> "id1", name |-> "a", apiKeySource |-> "AUTHORIZER", description |-> "d1",
      endpointConfiguration |-> [types |-> <<"REGIONAL">>]] @@ m @@ b :
        m \in Opt("minimumCompressionSize", {5, 10}),
        b \in Opt("binaryMediaTypes", {<<"image/png">>})}

RaOther ==
    [id |-> "id2", name |-> "b", apiKeySource |-> "HEADER", description |-> "d2",
     endpointConfiguration |-> [types |-> <<"EDGE">>]]

RaAccounts ==
    {<<>>, <<RaOther>>} \cup {<<a>> : a \in RaApis}
    \cup {<<a, RaOther>> : a \in {x \in RaApis : "minimumCompressionSize" \notin DOMAIN x}}

UpkTasks ==
    {k @@ p @@ [key_type |-> "API_KEY"] @@ Flags(st, cm) :
        k \in Opt("api_key_id", {"id1", "id9"}) \cup Opt("api_key", {"a", "zz"}),
        p \in Opt("usage_plan_id", {"p1", "p9"}) \cup Opt("usage_plan", {"gold", "zz"}),
        st \in States, cm \in BOOLEAN}

UpkApiKeys == <<[id |-> "id1", name |-> "a"], [id |-> "id2", name |-> "b"]>>

UpkUsagePlans == <<[id |-> "p1", name |-> "gold"], [id |-> "p2", name |-> "silver"]>>

UpkKey(k, n, p) == [id |-> k, usagePlanId |-> p, type |-> "API_KEY", name |-> n]

UpkAccounts ==
    {[api_keys |-> UpkApiKeys, usage_plans |-> UpkUsagePlans, items |-> it] :
        it \in {<<>>, <<UpkKey("id1", "a", "p1")>>, <<UpkKey("id2", "b", "p1")>>,
                <<UpkKey("id1", "a", "p2"), UpkKey("id1", "a", "p1")>>}}

DnTasks ==
    {[name |-> n] @@ c @@ sp @@ t @@ [purge_tags |-> pt] @@ Flags(st, cm) :
        n \in {"x.com", "y.com"},
        c \in Opt("cert_arn", {"arn1", "arn2"}) \cup Opt("cert_name", {"n1"}),
        sp \in Opt("security_policy", {"TLS_1_2"}),
        t \in Opt("tags", {<<>>, [k1 |-> "v1"], [k1 |-> "v2", k2 |-> "w"]}),
        pt \in BOOLEAN, st \in States, cm \in BOOLEAN}

DnDomains ==
    {[domainName |-> "x.com", certificateArn |-> "arn1"] @@ c @@ sp @@ t :
        c \in Opt("certificateName", {"n1"}),
        sp \in Opt("securityPolicy", {"TLS_1_0"}),
        t \in Opt("tags", {[k1 |-> "v1"], [k1 |-> "v1", k3 |-> "z"]})}

DnAccounts == {<<>>} \cup {<<d>> : d \in DnDomains}

BpmTasks ==
    {[name |-> "x.com", base_path |-> bp] @@ r @@ ra @@ sg @@ Flags(st, cm) :
        bp \in {"(none)", "v1"}, r \in Opt("rest_api_id", {"r1", "r2"}),
        ra \in Opt("rest_api", {"api"}), sg \in Opt("stage", {"live", "dev"}),
        st \in States, cm \in BOOLEAN}

BpmMappings ==
    {[domainName |-> "x.com", basePath |-> "(none)", restApiId |-> "r1"] @@ sg :
        sg \in Opt("stage", {"live"})}

BpmOther == [domainName |-> "x.com", basePath |-> "v1", restApiId |-> "r2", stage |-> "live"]

BpmAccounts ==
    {<<>>} \cup {<<m>> : m \in BpmMappings} \cup {<<m, BpmOther>> : m \in BpmMappings}

VlTasks ==
    {[name |-> n] @@ v @@ d @@ t @@ Flags(st, cm) :
        n \in {"a", "b"}, v \in Opt("vpc_link_id", {"id1", "id9"}),
        d \in Opt("description", {"d1", "d2"}),
        t \in Opt("target_arns", {<<"arn1">>, <<"arn2">>}),
        st \in States, cm \in BOOLEAN}

VlLinks ==
    {[id |-> "id1", name |-> "a", targetArns |-> <<"arn1">>, status |-> s] @@ d :
        s \in {"AVAILABLE", "FAILED"}, d \in Opt("description", {"d1"})}

VlOther ==
    [id |-> "id2", name |-> "b", targetArns |-> <<"arn2">>, status |-> "AVAILABLE",
     description |-> "d2"]

VlAccounts ==
    {<<>>} \cup {<<l>> : l \in VlLinks} \cup {<<l, VlOther>> : l \in VlLinks}

----------------------------------------------------------------------------
(* The state machine                                                       *)

Programs ==
    {"apigw_api_key", "apigw_rest_api", "apigw_usage_plan", "apigw_usage_plan_key",
     "apigw_domain_name", "apigw_base_path_mapping", "apigw_vpc_link"}

Tasks(p) ==
    CASE p = "apigw_api_key" -> AkTasks
      [] p = "apigw_rest_api" -> RaTasks
      [] p = "apigw_usage_plan" -> UpTasks
      [] p = "apigw_usage_plan_key" -> UpkTasks
      [] p = "apigw_domain_name" -> DnTasks
      [] p = "apigw_base_path_mapping" -> BpmTasks
      [] p = "apigw_vpc_link" -> VlTasks

Accounts(p) ==
    CASE p = "apigw_api_key" -> AkAccounts
      [] p = "apigw_rest_api" -> RaAccounts
      [] p = "apigw_usage_plan" -> UpAccounts
      [] p = "apigw_usage_plan_key" -> UpkAccounts
      [] p = "apigw_domain_name" -> DnAccounts
      [] p = "apigw_base_path_mapping" -> BpmAccounts
      [] p = "apigw_vpc_link" -> VlAccounts

Init ==
    /\ program \in Programs
    /\ task \in Tasks(program)
    /\ aws \in Accounts(program)
    /\ hist = <<>>

\* The record kept of one execution: the account before it and its outcome;
\* fault is the number of the modifying call that ended in an SDK error (0:
\* none did) and error the kind of that error.
Record(r) == [before |-> aws, fault |-> 0, error |-> "none"] @@ r

\* One execution of a program's main() on the task: an action per program.
RunApiKey ==
    /\ program = "apigw_api_key"
    /\ Len(hist) < MaxRuns
    /\ LET r == apigw_api_key(task, aws)
       IN /\ aws' = r.aws
          /\ hist' = Append(hist, Record(r))
    /\ UNCHANGED <<program, task>>

RunRestApi ==
    /\ program = "apigw_rest_api"
    /\ Len(hist) < MaxRuns
    /\ LET r == apigw_rest_api(task, aws)
       IN /\ aws' = r.aws
          /\ hist' = Append(hist, Record(r))
    /\ UNCHANGED <<program, task>>

RunUsagePlan ==
    /\ program = "apigw_usage_plan"
    /\ Len(hist) < MaxRuns
    /\ LET r == apigw_usage_plan(task, aws)
       IN /\ aws' = r.aws
          /\ hist' = Append(hist, Record(r))
    /\ UNCHANGED <<program, task>>

RunUsagePlanKey ==
    /\ program = "apigw_usage_plan_key"
    /\ Len(hist) < MaxRuns
    /\ LET r == apigw_usage_plan_key(task, aws)
       IN /\ aws' = r.aws
          /\ hist' = Append(hist, Record(r))
    /\ UNCHANGED <<program, task>>

RunDomainName ==
    /\ program = "apigw_domain_name"
    /\ Len(hist) < MaxRuns
    /\ LET r == apigw_domain_name(task, aws)
       IN /\ aws' = r.aws
          /\ hist' = Append(hist, Record(r))
    /\ UNCHANGED <<program, task>>

RunBasePathMapping ==
    /\ program = "apigw_base_path_mapping"
    /\ Len(hist) < MaxRuns
    /\ LET r == apigw_base_path_mapping(task, aws)
       IN /\ aws' = r.aws
          /\ hist' = Append(hist, Record(r))
    /\ UNCHANGED <<program, task>>

RunVpcLink ==
    /\ program = "apigw_vpc_link"
    /\ Len(hist) < MaxRuns
    /\ LET r == apigw_vpc_link(task, aws)
       IN /\ aws' = r.aws
          /\ hist' = Append(hist, Record(r))
    /\ UNCHANGED <<program, task>>

Next ==
    \/ RunApiKey
    \/ RunRestApi
    \/ RunUsagePlan
    \/ RunUsagePlanKey
    \/ RunDomainName
    \/ RunBasePathMapping
    \/ RunVpcLink

Spec == Init /\ [][Next]_vars

----------------------------------------------------------------------------
(* Vocabulary of the properties                                            *)

\* main() of program p.
Main(p, params, account) ==
    CASE p = "apigw_api_key" -> apigw_api_key(params, account)
      [] p = "apigw_rest_api" -> apigw_rest_api(params, account)
      [] p = "apigw_usage_plan" -> apigw_usage_plan(params, account)
      [] p = "apigw_usage_plan_key" -> apigw_usage_plan_key(params, account)
      [] p = "apigw_domain_name" -> apigw_domain_name(params, account)
      [] p = "apigw_base_path_mapping" -> apigw_base_path_mapping(params, account)
      [] p = "apigw_vpc_link" -> apigw_vpc_link(params, account)

\* The resources of program p's kind in an account.
Items(p, account) == IF p = "apigw_usage_plan_key" THEN account.items ELSE account

\* The api key id and usage plan id a usage plan key task names.
UpkKeyId(params, account) ==
    IF NotBlank(params, "api_key_id") THEN params.api_key_id
    ELSE upk_find_id(account.api_keys, params.api_key)
UpkPlanId(params, account) ==
    IF NotBlank(params, "usage_plan_id") THEN params.usage_plan_id
    ELSE upk_find_id(account.usage_plans, params.usage_plan)

\* The task gives the parameter that identifies the resource.
Identified(p, params) ==
    CASE p \in {"apigw_api_key", "apigw_rest_api"} ->
           NotBlank(params, "id") \/ NotBlank(params, "name")
      [] p = "apigw_usage_plan_key" ->
           /\ NotBlank(params, "api_key_id") \/ NotBlank(params, "api_key")
           /\ NotBlank(params, "usage_plan_id") \/ NotBlank(params, "usage_plan")
      [] OTHER -> params.name \notin {"", None}

\* The index in Items(p, account) of the resource the task identifies, or 0.
Target(p, params, account) ==
    CASE ~Identified(p, params) -> 0
      [] p = "apigw_api_key" -> find_api_key(params, account)
      [] p = "apigw_rest_api" -> find_rest_api(params, account)
      [] p = "apigw_usage_plan" -> find_usage_plan(params, account)
      [] p = "apigw_usage_plan_key" ->
           upk_get(account, UpkKeyId(params, account), UpkPlanId(params, account))
      [] p = "apigw_domain_name" -> retrieve_domain_name(account, params.name)
      [] p = "apigw_base_path_mapping" ->
           get_base_path_mapping(account, params.name, params.base_path)
      [] p = "apigw_vpc_link" -> find_vpc_link(params, account)

\* What a delete call must carry to address resource r.
DeleteOf(p, r) ==
    CASE p = "apigw_api_key" -> [api |-> "delete_api_key", id |-> r.id]
      [] p = "apigw_rest_api" -> [api |-> "delete_rest_api", id |-> r.id]
      [] p = "apigw_usage_plan" -> [api |-> "delete_usage_plan", id |-> r.id]
      [] p = "apigw_usage_plan_key" ->
           [api |-> "delete_usage_plan_key", id |-> r.id, usagePlanId |-> r.usagePlanId]
      [] p = "apigw_domain_name" -> [api |-> "delete_domain_name", id |-> r.domainName]
      [] p = "apigw_base_path_mapping" ->
           [api |-> "delete_base_path_mapping", id |-> <<r.domainName, r.basePath>>]
      [] p = "apigw_vpc_link" -> [api |-> "delete_vpc_link", id |-> r.id]

DeleteApis ==
    {"delete_api_key", "delete_rest_api", "delete_usage_plan", "delete_usage_plan_key",
     "delete_domain_name", "delete_base_path_mapping", "delete_vpc_link"}

UpdateApis ==
    {"update_api_key", "update_rest_api", "update_usage_plan", "update_domain_name",
     "update_base_path_mapping", "update_vpc_link"}

\* The elements of a sequence.
Range(s) == {s[i] : i \in 1 .. Len(s)}

\* The executions of the play so far.
Runs == 1 .. Len(hist)

Present == task.state = "present"
Absent == task.state = "absent"

\* The resource the i-th execution found, when it found one.
Found(i) == Target(program, task, hist[i].before) # 0
FoundItem(i) == Items(program, hist[i].before)[Target(program, task, hist[i].before)]

\* The account holds the resource the task identifies, with every field the
\* task specifies at the specified value.
UpConverged(t, a) ==
    LET i == LastByName(a, t.name)
    IN /\ i # 0
       /\ \A f \in {"description", "quota_limit", "quota_period", "quota_offset",
                    "throttle_burst_limit", "throttle_rate_limit"} :
            ~is_default_value(f, t[f]) =>
               /\ up_has_value(a[i], up_param_map(f))
               /\ up_get_value(a[i], up_param_map(f)) = t[f]
       /\ \A k \in 1 .. Len(t.api_stages) :
            InSeq(new_api_stages(t)[k], old_api_stages(a[i]))

AkConverged(t, a) ==
    LET i == find_api_key(t, a)
    IN /\ i # 0
       /\ NotBlank(t, "name") => a[i].name = t.name
       /\ NotBlank(t, "description") =>
            "description" \in DOMAIN a[i] /\ a[i].description = t.description
       /\ a[i].enabled = t.enabled
       /\ NotBlank(t, "value") => a[i].value = t.value

RaConverged(t, a) ==
    LET i == find_rest_api(t, a)
    IN /\ i # 0
       /\ \A f \in {"name", "description", "api_key_source", "binary_media_types",
                    "endpoint_configuration", "minimum_compression_size"} :
            IsSet(t, f) =>
               ra_param_map(f) \in DOMAIN a[i] /\ a[i][ra_param_map(f)] = t[f]

UpkConverged(t, a) == upk_get(a, UpkKeyId(t, a), UpkPlanId(t, a)) # 0

DnConverged(t, a) ==
    LET i == retrieve_domain_name(a, t.name)
        tg == IF "tags" \in DOMAIN a[i] THEN a[i].tags ELSE <<>>
    IN /\ i # 0
       /\ IsSet(t, "cert_arn") =>
            "certificateArn" \in DOMAIN a[i] /\ a[i].certificateArn = t.cert_arn
       /\ IsSet(t, "cert_name") =>
            "certificateName" \in DOMAIN a[i] /\ a[i].certificateName = t.cert_name
       /\ IsSet(t, "security_policy") =>
            "securityPolicy" \in DOMAIN a[i] /\ a[i].securityPolicy = t.security_policy
       /\ IsSet(t, "tags") =>
            /\ \A k \in DOMAIN t.tags : k \in DOMAIN tg /\ tg[k] = t.tags[k]
            /\ t.purge_tags => DOMAIN tg = DOMAIN t.tags

BpmConverged(t, a) ==
    LET i == get_base_path_mapping(a, t.name, t.base_path)
    IN /\ i # 0
       /\ IsSet(t, "rest_api_id") => a[i].restApiId = t.rest_api_id
       /\ IsSet(t, "stage") => "stage" \in DOMAIN a[i] /\ a[i].stage = t.stage

VlConverged(t, a) ==
    LET i == find_vpc_link(t, a)
    IN /\ i # 0
       /\ IsSet(t, "description") =>
            "description" \in DOMAIN a[i] /\ a[i].description = t.description
       /\ IsSet(t, "target_arns") => a[i].targetArns = t.target_arns

Converged(p, t, a) ==
    CASE p = "apigw_api_key" -> AkConverged(t, a)
      [] p = "apigw_rest_api" -> RaConverged(t, a)
      [] p = "apigw_usage_plan" -> UpConverged(t, a)
      [] p = "apigw_usage_plan_key" -> UpkConverged(t, a)
      [] p = "apigw_domain_name" -> DnConverged(t, a)
      [] p = "apigw_base_path_mapping" -> BpmConverged(t, a)
      [] p = "apigw_vpc_link" -> VlConverged(t, a)

----------------------------------------------------------------------------
(* Properties                                                              *)

\* C1: every module is idempotent.  When an execution with state=present,
\* not in check mode, succeeds and the same task is executed again on the
\* account it left, the second execution issues no call that modifies the
\* account and reports changed=False.
C1_Idempotent ==
    \A i \in Runs :
        (i > 1 /\ Present /\ ~task.check_mode /\ hist[i - 1].out = "exit") =>
            /\ hist[i].out = "exit"
            /\ hist[i].calls = <<>>
            /\ hist[i].changed = FALSE

\* C2: a successful execution with state=present, not in check mode,
\* converges: afterwards the resource the task identifies exists and every
\* field the task specified has the specified value.
C2_Converges ==
    \A i \in Runs :
        (Present /\ ~task.check_mode /\ hist[i].out = "exit") =>
            Converged(program, task, hist[i].aws)

\* C3: an execution with state=absent, not in check mode, whose lookup finds
\* the resource issues exactly one delete call, addressed to that resource,
\* reports changed=True, and the resource is gone afterwards.
C3_AbsentDeletes ==
    \A i \in Runs :
        (Absent /\ ~task.check_mode /\ Found(i)) =>
            /\ hist[i].out = "exit"
            /\ hist[i].changed = TRUE
            /\ SelectSeq(hist[i].calls, LAMBDA c : c.api \in DeleteApis)
                 = <<DeleteOf(program, FoundItem(i))>>
            /\ FoundItem(i) \notin Range(Items(program, hist[i].aws))

\* C4: an execution with state=absent that finds no matching resource ends
\* successfully with changed=False, issues no call and leaves the account as
\* it was.
C4_AbsentNoop ==
    \A i \in Runs :
        (Absent /\ Identified(program, task) /\ ~Found(i)) =>
            /\ hist[i].out = "exit"
            /\ hist[i].changed = FALSE
            /\ hist[i].calls = <<>>
            /\ hist[i].aws = hist[i].before

\* C6: check mode is supported by every module.  An execution in check mode
\* issues no call that modifies the account, and it ends successfully with
\* the changed value the same task reports when not in check mode.
C6_CheckMode ==
    \A i \in Runs :
        task.check_mode =>
            /\ hist[i].calls = <<>>
            /\ hist[i].aws = hist[i].before
            /\ LET r == Main(program, [task EXCEPT !.check_mode = FALSE], hist[i].before)
               IN r.out = "exit" => hist[i].out = "exit" /\ hist[i].changed = r.changed

\* "<apiId>:<stage>" of the stages attached to a usage plan, and of the
\* entries of the api_stages parameter.
Attached(plan) ==
    IF "apiStages" \in DOMAIN plan
    THEN {st.apiId \o ":" \o st.stage : st \in Range(plan.apiStages)}
    ELSE {}
Listed(params) ==
    [k \in 1 .. Len(params.api_stages) |->
        params.api_stages[k].rest_api_id \o ":" \o params.api_stages[k].stage]

\* The patch paths of the fields the task specifies with a value that
\* differs from the one resource r holds ("tags" stands for the tags of a
\* domain name, which are not set through patches).
UpDiffering(t, r) ==
    {up_path(up_param_map(f)) :
       f \in {x \in {"description", "quota_limit", "quota_period", "quota_offset",
                     "throttle_burst_limit", "throttle_rate_limit"} :
                /\ ~is_default_value(x, t[x])
                /\ \/ ~up_has_value(r, up_param_map(x))
                   \/ up_get_value(r, up_param_map(x)) # t[x]}}
    \cup (IF t.api_stages # <<>> /\ Range(Listed(t)) # Attached(r)
          THEN {"/apiStages"} ELSE {})

AkDiffering(t, r) ==
    (IF NotBlank(t, "name") /\ t.name # r.name THEN {"/name"} ELSE {})
    \cup (IF NotBlank(t, "description") /\ t.description # Get(r, "description")
          THEN {"/description"} ELSE {})
    \cup (IF t.enabled # r.enabled THEN {"/enabled"} ELSE {})

RaDiffering(t, r) ==
    {"/" \o ra_param_map(f) :
       f \in {x \in {"name", "description", "api_key_source", "minimum_compression_size",
                     "policy", "version"} :
                /\ IsSet(t, x)
                /\ ra_param_map(x) \in DOMAIN r => r[ra_param_map(x)] # t[x]}}
    \cup (IF /\ IsSet(t, "endpoint_configuration")
             /\ t.endpoint_configuration.types # r.endpointConfiguration.types
          THEN {"/endpointConfiguration/types/" \o r.endpointConfiguration.types[1]}
          ELSE {})

DnDiffering(t, r) ==
    LET tg == IF "tags" \in DOMAIN r THEN r.tags ELSE <<>>
    IN (IF NotBlank(t, "cert_arn") /\ t.cert_arn # Get(r, "certificateArn")
        THEN {"/certificateArn"} ELSE {})
       \cup (IF NotBlank(t, "cert_name") /\ t.cert_name # Get(r, "certificateName")
             THEN {"/certificateName"} ELSE {})
       \cup (IF NotBlank(t, "security_policy") /\ t.security_policy # Get(r, "securityPolicy")
             THEN {"/securityPolicy"} ELSE {})
       \cup (IF /\ IsSet(t, "tags")
                /\ \/ \E k \in DOMAIN t.tags : k \notin DOMAIN tg \/ tg[k] # t.tags[k]
                   \/ t.purge_tags /\ DOMAIN tg \ DOMAIN t.tags # {}
             THEN {"tags"} ELSE {})

BpmDiffering(t, r) ==
    (IF NotBlank(t, "rest_api_id") /\ t.rest_api_id # r.restApiId
     THEN {"/restapiId"} ELSE {})
    \cup (IF NotBlank(t, "stage") /\ t.stage # Get(r, "stage") THEN {"/stage"} ELSE {})

VlDiffering(t, r) ==
    (IF NotBlank(t, "name") /\ t.name # r.name THEN {"/name"} ELSE {})
    \cup (IF NotBlank(t, "description") /\ t.description # Get(r, "description")
          THEN {"/description"} ELSE {})

Differing(p, t, r) ==
    CASE p = "apigw_api_key" -> AkDiffering(t, r)
      [] p = "apigw_rest_api" -> RaDiffering(t, r)
      [] p = "apigw_usage_plan" -> UpDiffering(t, r)
      [] p = "apigw_usage_plan_key" -> {}
      [] p = "apigw_domain_name" -> DnDiffering(t, r)
      [] p = "apigw_base_path_mapping" -> BpmDiffering(t, r)
      [] p = "apigw_vpc_link" -> VlDiffering(t, r)

\* The i-th execution: state=present on an existing resource, ended
\* successfully.
Updating(i) == Present /\ Found(i) /\ hist[i].out = "exit"

NoUpdateCall(i) == \A c \in Range(hist[i].calls) : c.api \notin UpdateApis

\* C5 as stated: with state=present and an existing resource the patch list
\* holds an operation for a field only if the task specified that field with
\* a value that differs from the current one; when no specified field
\* differs no update call is issued and changed=False.
C5_MinimalAsStated ==
    \A i \in Runs :
        Updating(i) =>
            LET diff == Differing(program, task, FoundItem(i))
            IN /\ \A op \in Range(hist[i].patches) : op.path \in diff
               /\ diff = {} => NoUpdateCall(i) /\ hist[i].changed = FALSE

\* C5, amended: with state=present and an existing resource the patch list
\* holds an add or replace operation for a field only if the task specified
\* that field with a value that differs from the current one; every other
\* operation is a remove of /apiStages, /throttle or /quota made by
\* apigw_usage_plan under the purge option of that name; when no specified
\* field differs and the patch list holds no such remove, no update call is
\* issued and changed=False.
C5_Minimal ==
    \A i \in Runs :
        Updating(i) =>
            LET diff == Differing(program, task, FoundItem(i))
                ops == Range(hist[i].patches)
            IN /\ \A op \in ops :
                    \/ op.op \in {"add", "replace"} /\ op.path \in diff
                    \/ /\ op.op = "remove"
                       /\ program = "apigw_usage_plan"
                       /\ \/ op.path = "/apiStages" /\ task.purge_api_stages
                          \/ op.path = "/throttle" /\ task.purge_throttle
                          \/ op.path = "/quota" /\ task.purge_quota
               /\ (diff = {} /\ \A op \in ops : op.op # "remove") =>
                    NoUpdateCall(i) /\ hist[i].changed = FALSE

\* Reached for C5: an update whose patch list holds a replace of a differing
\* field next to a purge remove, and an execution that found nothing to
\* patch and reported changed=False.
C5_Witness ==
    /\ Len(hist) = 2
    /\ Updating(1) /\ Updating(2)
    /\ \E op \in Range(hist[1].patches) : op.op = "replace"
    /\ \E op \in Range(hist[1].patches) : op.op = "remove"
    /\ \E c \in Range(hist[1].calls) : c.api \in UpdateApis
    /\ Differing(program, task, FoundItem(2)) = {}
    /\ hist[2].patches = <<>> /\ hist[2].changed = FALSE

\* The apigw_usage_plan executions with state=present on an existing plan.
UpUpdating(i) == program = "apigw_usage_plan" /\ Present /\ Found(i)

StageOps(i, kind) ==
    SelectSeq(hist[i].patches, LAMBDA op : op.path = "/apiStages" /\ op.op = kind)

\* C7: when api_stages is not set, the api stages of an existing usage plan
\* are not modified: the patch list holds no operation on /apiStages,
\* whatever purge_api_stages is.
C7_StagesUntouched ==
    \A i \in Runs :
        (UpUpdating(i) /\ task.api_stages = <<>>) =>
            \A op \in Range(hist[i].patches) : op.path # "/apiStages"

\* C8: with api_stages set, the patch list holds one add /apiStages for each
\* entry of api_stages that is not attached, in the order listed, and no add
\* for an attached one; with purge_api_stages yes it holds one remove
\* /apiStages for each attached stage that is not listed and none for a
\* listed one; with purge_api_stages no it holds no remove /apiStages.
C8_StagesPurged ==
    \A i \in Runs :
        (UpUpdating(i) /\ task.api_stages # <<>>) =>
            LET attached == Attached(FoundItem(i))
                listed == Listed(task)
                adds == StageOps(i, "add")
                removes == StageOps(i, "remove")
            IN /\ [k \in 1 .. Len(adds) |-> adds[k].value]
                    = SelectSeq(listed, LAMBDA v : v \notin attached)
               /\ \A op \in Range(hist[i].patches) :
                    op.path = "/apiStages" => op.op \in {"add", "remove"}
               /\ task.purge_api_stages =>
                    /\ {removes[k].value : k \in 1 .. Len(removes)} = attached \ Range(listed)
                    /\ Len(removes) = Cardinality(attached \ Range(listed))
               /\ ~task.purge_api_stages => removes = <<>>

\* Reached for C8: a purge that removes an attached stage that is not listed,
\* adds a listed one that is not attached and leaves one that is both alone.
C8_Witness ==
    \E i \in Runs :
        /\ UpUpdating(i) /\ task.purge_api_stages
        /\ StageOps(i, "add") # <<>>
        /\ StageOps(i, "remove") # <<>>
        /\ Range(Listed(task)) \cap Attached(FoundItem(i)) # {}

\* C9: with purge_throttle yes, a remove /throttle is emitted for an existing
\* usage plan if and only if the plan has throttling and neither
\* throttle_burst_limit nor throttle_rate_limit is set.
C9_ThrottlePurged ==
    \A i \in Runs :
        (UpUpdating(i) /\ task.purge_throttle) =>
            ([op |-> "remove", path |-> "/throttle"] \in Range(hist[i].patches)
             <=> /\ "throttle" \in DOMAIN FoundItem(i)
                 /\ task.throttle_burst_limit < 0
                 /\ task.throttle_rate_limit < 0)

\* C10: with purge_quota yes, a remove /quota is emitted for an existing
\* usage plan if and only if the plan has a quota and none of quota_limit,
\* quota_offset and quota_period is set.
C10_QuotaPurged ==
    \A i \in Runs :
        (UpUpdating(i) /\ task.purge_quota) =>
            ([op |-> "remove", path |-> "/quota"] \in Range(hist[i].patches)
             <=> /\ "quota" \in DOMAIN FoundItem(i)
                 /\ task.quota_limit < 0
                 /\ task.quota_offset < 0
                 /\ task.quota_period = "")

\* The create_base_path_mapping call the documentation of
\* apigw_base_path_mapping describes for a task.
BpmCreateCall(t) ==
    [api |-> "create_base_path_mapping",
     args |-> [domainName |-> t.name, restApiId |-> t.rest_api_id, basePath |-> t.base_path]
              @@ (IF NotBlank(t, "stage") THEN [stage |-> t.stage] ELSE <<>>)]

\* C11: apigw_base_path_mapping with state=present, a rest_api_id given and
\* no mapping for the domain name and base path issues one
\* create_base_path_mapping call carrying the domain name, the rest api id,
\* the base path and the stage, and ends successfully with changed=True and
\* the created mapping.
C11_MappingCreated ==
    \A i \in Runs :
        (/\ program = "apigw_base_path_mapping"
         /\ Present /\ ~task.check_mode
         /\ NotBlank(task, "rest_api_id")
         /\ get_base_path_mapping(hist[i].before, task.name, task.base_path) = 0) =>
            /\ hist[i].out = "exit"
            /\ hist[i].changed = TRUE
            /\ hist[i].calls = <<BpmCreateCall(task)>>
            /\ hist[i].ret # <<>>
            /\ get_base_path_mapping(hist[i].aws, task.name, task.base_path) # 0

\* C12: in apigw_vpc_link a task that gives vpc_link_id is accepted and the
\* link is looked up by that id: with state=present, the id of an existing
\* link and a name that differs from the link's name, the patch list holds
\* replace /name, the one call made is an update_vpc_link of the link with
\* that id, and no link is looked up by name or created.
C12_LinkById ==
    \A i \in Runs :
        (/\ program = "apigw_vpc_link"
         /\ Present /\ ~task.check_mode
         /\ "vpc_link_id" \in DOMAIN task
         /\ "target_arns" \notin DOMAIN task
         /\ ById(hist[i].before, task.vpc_link_id) # 0
         /\ hist[i].before[ById(hist[i].before, task.vpc_link_id)].name # task.name) =>
            /\ [op |-> "replace", path |-> "/name", value |-> task.name]
                   \in Range(hist[i].patches)
            /\ hist[i].calls = <<[api |-> "update_vpc_link", id |-> task.vpc_link_id,
                                  patches |-> hist[i].patches]>>
            /\ hist[i].aws[ById(hist[i].before, task.vpc_link_id)].name = task.name

\* The calls of a run that create, update, tag or untag.
DnModifying(i) ==
    SelectSeq(hist[i].calls,
              LAMBDA c : c.api \in {"create_domain_name", "update_domain_name",
                                    "tag_resource", "untag_resource"})

\* C13: an apigw_domain_name run with state=present and neither cert_arn nor
\* cert_name ends in module failure and issues no create, update, tag or
\* untag call, whether or not the domain name exists; the account is left as
\* it was.
C13_CertRequired ==
    \A i \in Runs :
        (/\ program = "apigw_domain_name"
         /\ Present
         /\ "cert_arn" \notin DOMAIN task
         /\ "cert_name" \notin DOMAIN task) =>
            /\ hist[i].out = "fail"
            /\ DnModifying(i) = <<>>
            /\ hist[i].aws = hist[i].before

\* Reached for C13: a run without certificate on an existing domain name
\* whose tags and security policy differ from the task's, which fails.
C13_Witness ==
    \E i \in Runs :
        /\ program = "apigw_domain_name"
        /\ Present /\ ~task.check_mode /\ Found(i)
        /\ "cert_arn" \notin DOMAIN task /\ "cert_name" \notin DOMAIN task
        /\ "tags" \in DOMAIN task /\ "security_policy" \in DOMAIN task
        /\ "tags" \in DnDiffering(task, FoundItem(i))
        /\ "/securityPolicy" \in DnDiffering(task, FoundItem(i))
        /\ hist[i].out = "fail"

\* The tags of a domain name ("domain.get('tags') or {}").
TagsOf(domain) == IF "tags" \in DOMAIN domain THEN domain.tags ELSE <<>>

\* The keys of the task's tags that the domain name lacks or holds with
\* another value, and the keys of the domain name's tags the task does not
\* specify.
TagsToSet(t, domain) ==
    {k \in DOMAIN t.tags : k \notin DOMAIN TagsOf(domain) \/ TagsOf(domain)[k] # t.tags[k]}
TagsUnlisted(t, domain) == DOMAIN TagsOf(domain) \ DOMAIN t.tags

CallsOf(i, api) == SelectSeq(hist[i].calls, LAMBDA c : c.api = api)

\* The apigw_domain_name runs C14 is about: state=present, a certificate and
\* tags given, the domain name exists, no check mode.
DnTagging(i) ==
    /\ program = "apigw_domain_name"
    /\ Present /\ ~task.check_mode /\ Found(i)
    /\ "tags" \in DOMAIN task
    /\ "cert_arn" \in DOMAIN task \/ "cert_name" \in DOMAIN task

\* The tag_resource and untag_resource calls of C14: tag_resource carries
\* exactly the specified tags that are missing or differ (no call when there
\* is none), untag_resource carries exactly the unlisted keys when purge_tags
\* is true and there is one, and is not called otherwise.
DnTagCalls(i) ==
    LET toset == TagsToSet(task, FoundItem(i))
        unlisted == TagsUnlisted(task, FoundItem(i))
    IN /\ CallsOf(i, "tag_resource") =
            IF toset = {} THEN <<>>
            ELSE <<[api |-> "tag_resource", arn |-> domain_name_arn(task.name),
                    tags |-> [k \in toset |-> task.tags[k]]]>>
       /\ CallsOf(i, "untag_resource") =
            IF task.purge_tags /\ unlisted # {}
            THEN <<[api |-> "untag_resource", arn |-> domain_name_arn(task.name),
                    tagKeys |-> unlisted]>>
            ELSE <<>>

DnTagChange(i) ==
    \/ TagsToSet(task, FoundItem(i)) # {}
    \/ task.purge_tags /\ TagsUnlisted(task, FoundItem(i)) # {}

\* C14: in apigw_domain_name with tags given for an existing domain name,
\* untag_resource is called with exactly the unlisted keys when purge_tags is
\* true and not called when it is false, tag_resource is called with exactly
\* the specified tags that are missing or differ, and whenever at least one
\* tag is added, changed or removed the run reports changed=True.  (The
\* converse, changed=True only if a tag changed, is left out of the
\* statement: a certificate or security policy patch sets changed as well.)
C14_TagsReported ==
    \A i \in Runs :
        DnTagging(i) =>
            /\ DnTagCalls(i)
            /\ DnTagChange(i) => hist[i].out = "exit" /\ hist[i].changed = TRUE

----------------------------------------------------------------------------
(* SDK errors                                                              *)

\* The errors a modifying call can end in: a ClientError the retry wrapper
\* does not absorb (not retryable, or still there after the last try), and
\* a retryable ClientError (throttling) that is gone at the second try.
ErrorKinds == {"ClientError", "Retryable"}

\* The except clauses of the modules: the exception classes caught and what
\* the clause does.
MainHandler == [catches |-> {"ClientError"}, does |-> "fail_json_aws"]
LocalHandler == [catches |-> {"ClientError", "BotoCoreError"}, does |-> "fail_json_aws"]
DnPatchHandler == [catches |-> {"BotoCoreError"}, does |-> "fail_json"]

\* The except clauses around the call site of api in program p, innermost
\* first: the delete calls, everything ensure_usage_plan_absent calls and
\* the create of a usage plan key are inside a try of their own, the update
\* of a domain name is inside a try that catches BotoCoreError only, and
\* every ensure_* function is called inside the try of main().
except_chain(p, params, api) ==
    IF \/ api \in DeleteApis
       \/ p = "apigw_usage_plan" /\ params.state = "absent"
       \/ api = "create_usage_plan_key"
    THEN <<LocalHandler, MainHandler>>
    ELSE IF api = "update_domain_name" THEN <<DnPatchHandler, MainHandler>>
    ELSE <<MainHandler>>

\* A chain in which a ClientError is caught and dropped.
swallowed(chain, class) == "exit"

\* How a run ends when an exception of the given class is raised inside the
\* chain: the first clause that catches it reports a module failure; caught
\* by none, the exception ends the run with a traceback.
raise_outcome(chain, class) ==
    IF \E h \in 1 .. Len(chain) : class \in chain[h].catches THEN "fail" ELSE "crash"

\* The call goes through a function decorated with @AWSRetry...:
\* backoff_untag_resource is the one backoff_* function without decorator.
retry_wrapped(api) == api # "untag_resource"

\* The index of the domain name a tag_resource / untag_resource arn names.
DnByArn(items, arn) == CHOOSE i \in 1 .. Len(items) : domain_name_arn(items[i].domainName) = arn

\* The account after a modifying call that is followed by another call in
\* the same run: update_usage_plan (before delete_usage_plan), tag_resource
\* and untag_resource.
svc_apply(account, c) ==
    CASE c.api = "update_usage_plan" ->
           [account EXCEPT ![ById(account, c.id)] = svc_update_usage_plan(@, c.patches)]
      [] c.api = "tag_resource" ->
           [account EXCEPT ![DnByArn(account, c.arn)] = svc_tag_domain(@, c.tags)]
      [] c.api = "untag_resource" ->
           [account EXCEPT ![DnByArn(account, c.arn)] = svc_untag_domain(@, c.tagKeys)]

RECURSIVE AfterCalls(_, _)
AfterCalls(account, calls) ==
    IF calls = <<>> THEN account
    ELSE AfterCalls(svc_apply(account, Head(calls)), Tail(calls))

\* The patch list the run has built when it makes call c: apigw_domain_name
\* makes its tag_resource and untag_resource calls (lines 262-269) before
\* it builds the list (line 276), every other call follows the list.
patches_at(r, c) ==
    IF c.api \in {"tag_resource", "untag_resource"} THEN <<>> ELSE r.patches

\* main() when the k-th modifying call of the run ends in error e; r is the
\* outcome of the run without error.  A retryable error on a wrapped call is
\* retried and the run goes on as r; any other error is raised at the call
\* site after the first k-1 calls were made.
faulty(p, params, account, r, k, e) ==
    IF e = "Retryable" /\ retry_wrapped(r.calls[k].api) THEN r
    ELSE LET out == raise_outcome(except_chain(p, params, r.calls[k].api), "ClientError")
         IN [out |-> out, changed |-> IF out = "exit" THEN r.changed ELSE FALSE,
             calls |-> SubSeq(r.calls, 1, k), patches |-> patches_at(r, r.calls[k]),
             ret |-> <<>>,
             aws |-> AfterCalls(account, SubSeq(r.calls, 1, k - 1))]

\* One execution of the program's main() in which a modifying call ends in
\* an SDK error.
RunWithError ==
    /\ Len(hist) < MaxRuns
    /\ LET r == Main(program, task, aws)
       IN \E k \in 1 .. Len(r.calls), e \in ErrorKinds :
            LET f == faulty(program, task, aws, r, k, e)
            IN /\ aws' = f.aws
               /\ hist' = Append(hist, [before |-> aws, fault |-> k, error |-> e] @@ f)
    /\ UNCHANGED <<program, task>>

NextWithErrors ==
    \/ Next
    \/ RunWithError

SpecWithErrors == Init /\ [][NextWithErrors]_vars

\* The call of the i-th execution that ended in error.
FailedCall(i) == hist[i].calls[hist[i].fault]

\* C15: in every module, when a create, update or delete call ends in a
\* ClientError that the retry wrapper does not absorb, the run ends in
\* module failure: it does not exit with a result, reports no changed value,
\* and makes no call after the one that failed.
C15_ErrorReported ==
    \A i \in Runs :
        (/\ hist[i].fault # 0
         /\ hist[i].error = "ClientError"
         /\ FailedCall(i).api \notin {"tag_resource", "untag_resource"}) =>
            /\ hist[i].out = "fail"
            /\ hist[i].changed = FALSE
            /\ hist[i].fault = Len(hist[i].calls)

\* Reached for C15: apigw_usage_plan with state=absent detached the stages
\* of the plan, the delete call that followed ended in a ClientError, and
\* the run failed with the plan still in the account.
C15_Witness ==
    \E i \in Runs :
        /\ hist[i].fault = 2 /\ hist[i].error = "ClientError"
        /\ FailedCall(i).api = "delete_usage_plan"
        /\ hist[i].out = "fail"
        /\ Len(hist[i].aws) = Len(hist[i].before)
        /\ hist[i].aws # hist[i].before

\* C16: every AWS call goes through the retry wrapper: a retryable error on
\* any modifying call is retried, and the run ends as it does without the
\* error.
C16_Retried ==
    \A i \in Runs :
        (hist[i].fault # 0 /\ hist[i].error = "Retryable") =>
            LET r == Main(program, task, hist[i].before)
            IN /\ hist[i].out = r.out
               /\ hist[i].changed = r.changed
               /\ hist[i].calls = r.calls
               /\ hist[i].aws = r.aws

====
